---- MODULE Spec2Model ----
(***************************************************************************)
(* Model of package retry (src/retry/retry.go): New validates an Options   *)
(* value and builds a Doer; Doer.Do runs the retry loop with exponential   *)
(* backoff, jitter, a retry policy, an attempt ceiling and a cumulative    *)
(* wait budget.  The Tryer variant (src/unnamed/part_000), whose Options    *)
(* count retries after the initial attempt, is modelled beside it.         *)
(*                                                                         *)
(* Numbers.  time.Duration is int64; the model keeps two's complement      *)
(* arithmetic at a reduced width (MinInt64..MaxInt64).  float64 values are *)
(* exact rationals n/d plus the IEEE values NaN and +-Inf, with IEEE       *)
(* comparison (every ordered comparison with NaN is false).  The options   *)
(* the model draws are either small (far from the int64 limit, so sums of  *)
(* delays never wrap) or MaxInt64 itself.  A float64 -> int64 conversion   *)
(* of NaN or of a value out of range is implementation-dependent in Go;    *)
(* it is a choice among ConvUB.                                            *)
(***************************************************************************)
EXTENDS Integers, Sequences, FiniteSets, TLC

VARIABLES
    opts,      \* the Options passed to New (NoOptions before the call)
    doer,      \* the *Doer returned by New (NoDoer while nil)
    newErr,    \* the error returned by New ("pending" before the call)
    tryOpts,   \* the Options passed to the Tryer variant's New
    tryer,     \* the *Tryer it returned (NoTryer while nil)
    tryErr,    \* the error it returned ("pending" before the call)
    pc,        \* pc[p]: where execution p of Do stands
    fn,        \* fn[p]: the Operation passed to Do or Try ("nil" or its name)
    d,         \* d[p]: the receiver of Do or Try, a copy (value receiver)
    r,         \* r[p]: the private *rand.Rand of the execution
    errs,      \* errs[p]: the named result errs
    attempt,   \* attempt[p]: the loop counter
    total,     \* total[p]: the cumulative delay charged so far
    sleep,     \* sleep[p]: time.Duration(sleep) of the current iteration
    err,       \* err[p]: the loop-local err, the last result of fn
    ret,       \* ret[p]: the overall error Do returned ("running" before)
    log        \* log[p]: history of what the execution did, in order

\* The state of the Tryer variant's constructor.
tryVars == <<tryOpts, tryer, tryErr>>

vars == <<opts, doer, newErr, tryVars, pc, fn, d, r, errs, attempt, total, sleep, err, ret, log>>

----------------------------------------------------------------------------
(* Bounds of the model. *)

\* Largest Options.Attempts drawn.
MaxAttempts == 3

\* Largest Options.Attempts drawn when two callers share the Doer.
PairAttempts == 2

\* r.Float64() is drawn from the UGrid values k / UGrid of [0, 1) where the
\* jitter alone is computed.
UGrid == 32

----------------------------------------------------------------------------
(* int64 / time.Duration *)

MaxInt64 == (2^6) - 1
MinInt64 == -(2^6)

\* int64 addition: two's complement wrap-around.
Wrap(x) == ((x - MinInt64) % (MaxInt64 - MinInt64 + 1)) + MinInt64

----------------------------------------------------------------------------
(* float64 *)

Num(n, dd) == [k |-> "num", n |-> n, d |-> dd]
NaN == [k |-> "nan", n |-> 0, d |-> 1]
PosInf == [k |-> "inf", n |-> 1, d |-> 1]
NegInf == [k |-> "inf", n |-> -1, d |-> 1]
Zero == Num(0, 1)
One == Num(1, 1)

IsNaN(x) == x.k = "nan"
Sign(x) == IF x.n > 0 THEN 1 ELSE IF x.n < 0 THEN -1 ELSE 0

\* x < y on float64: false when either is NaN.
FLt(x, y) ==
    IF IsNaN(x) \/ IsNaN(y) THEN FALSE
    ELSE IF x.k = "inf" THEN x.n < 0 /\ ~(y.k = "inf" /\ y.n < 0)
    ELSE IF y.k = "inf" THEN y.n > 0
    ELSE x.n * y.d < y.n * x.d

\* x > y on float64.
FGt(x, y) == FLt(y, x)

\* x >= y as a mathematical statement about float64 values (false for NaN).
FGe(x, y) == ~IsNaN(x) /\ ~IsNaN(y) /\ ~FLt(x, y)

\* x * y on float64.
FMul(x, y) ==
    IF IsNaN(x) \/ IsNaN(y) THEN NaN
    ELSE IF x.k = "inf" \/ y.k = "inf"
         THEN IF Sign(x) * Sign(y) = 0 THEN NaN
              ELSE IF Sign(x) * Sign(y) > 0 THEN PosInf ELSE NegInf
    ELSE Num(x.n * y.n, x.d * y.d)

\* x - y on float64.
FSub(x, y) ==
    IF IsNaN(x) \/ IsNaN(y) THEN NaN
    ELSE IF x.k = "inf" /\ y.k = "inf"
         THEN IF x.n = y.n THEN NaN ELSE x
    ELSE IF x.k = "inf" THEN x
    ELSE IF y.k = "inf" THEN IF y.n > 0 THEN NegInf ELSE PosInf
    ELSE Num(x.n * y.d - y.n * x.d, x.d * y.d)

\* math.Min(x, y): NaN if either is NaN, else the smaller.
FMin(x, y) ==
    IF IsNaN(x) \/ IsNaN(y) THEN NaN
    ELSE IF FLt(y, x) THEN y ELSE x

\* math.Pow(x, float64(i)) for an integer i >= 0: Pow(x, 0) = 1 for any x,
\* NaN included.
Pow(x, i) ==
    IF i = 0 THEN One
    ELSE IF IsNaN(x) THEN NaN
    ELSE IF x.k = "inf" THEN (IF x.n > 0 \/ i % 2 = 0 THEN PosInf ELSE NegInf)
    ELSE Num(x.n ^ i, x.d ^ i)

\* float64(x) of an int64: exact, except that float64 has fewer mantissa bits
\* than int64, so the largest int64 rounds up to MaxInt64 + 1.
ToFloat64(x) == IF x = MaxInt64 THEN Num(MaxInt64 + 1, 1) ELSE Num(x, 1)

\* Truncation toward zero of a finite float64.
Trunc(x) == IF x.n >= 0 THEN x.n \div x.d ELSE -((-x.n) \div x.d)

\* What a float64 -> int64 conversion may yield when the value is NaN or out
\* of range (the Go specification leaves it to the implementation).
ConvUB == {MinInt64, 0, MaxInt64}

\* time.Duration(x): the set of values the conversion can produce.
Duration(x) ==
    IF x.k = "num" /\ Trunc(x) >= MinInt64 /\ Trunc(x) <= MaxInt64
    THEN {Trunc(x)}
    ELSE ConvUB

----------------------------------------------------------------------------
(* Values *)

\* The executions of Do the model runs (goroutines calling d.Do).
Procs == {1, 2}

\* The non-nil errors an Operation returns.
Errs == {"e1", "e2"}

\* The overall errors of Do; "nil" is success.
ErrMaxAttempts == "reached maximum attempts"
ErrCancelled == "further retries cancelled"
ErrTimeout == "couldn't complete operation in time"
errNoFunc == "fn is nil"

\* No Options value yet.
NoOptions == [none |-> TRUE]

\* A nil *Doer.
NoDoer == [nil |-> TRUE]

\* A nil *Tryer.
NoTryer == [nil |-> TRUE]

\* sync.Mutex{}: the zero value is an unlocked mutex.
Mutex == "unlocked"

\* One entry of log[p].
Ev(e, er, dur, ans) == [e |-> e, err |-> er, d |-> dur, ans |-> ans]

----------------------------------------------------------------------------
(* New *)

\* The validation chain of New: the field whose check fails first, or "nil"
\* when New returns no error.
NewErr(o) ==
    IF o.Attempts < 1 THEN "Attempts"
    ELSE IF o.Base <= 0 THEN "Base"
    ELSE IF o.MaxInterval < o.Base THEN "MaxInterval"
    ELSE IF o.MaxWait < o.Base THEN "MaxWait"
    ELSE IF FLt(o.Exponent, One) THEN "Exponent"
    ELSE IF FLt(o.Jitter, Zero) \/ FGt(o.Jitter, One) THEN "Jitter"
    ELSE "nil"

\* The Doer that New builds from o; now is time.Now().UnixNano().
NewDoer(retry, o, now) ==
    [nil         |-> FALSE,
     seed        |-> now,
     seedMu      |-> Mutex,
     attempts    |-> o.Attempts,
     base        |-> ToFloat64(o.Base),
     maxInterval |-> ToFloat64(o.MaxInterval),
     maxWait     |-> o.MaxWait,
     exponent    |-> o.Exponent,
     jitter      |-> o.Jitter,
     retry       |-> retry]

\* New(retry, o): returns (nil, error) or (&Doer{...}, nil).
New(retry, o, now) ==
    /\ newErr = "pending"
    /\ opts' = o
    /\ newErr' = NewErr(o)
    /\ doer' = IF NewErr(o) = "nil" THEN NewDoer(retry, o, now) ELSE NoDoer
    /\ UNCHANGED <<tryVars, pc, fn, d, r, errs, attempt, total, sleep, err, ret, log>>

----------------------------------------------------------------------------
(* The random source *)

\* rand.New(rand.NewSource(seed)): a generator is its seed and the number of
\* values drawn so far; the stream is a fixed function of the seed.
NewRand(seed) == [seed |-> seed, n |-> 0]

\* The next r.Float64(), a value of [0, 1): here 0 or 1/2, read off the seed.
RFloat64(g) == Num((g.seed \div (2 ^ (g.n % 2))) % 2, 2)

\* The generator after one draw.
Drawn(g) == [g EXCEPT !.n = g.n + 1]

----------------------------------------------------------------------------
(* The backoff computation of Do *)

\* sleep := d.base * math.Pow(d.exponent, float64(attempt))
Backoff(dr, i) == FMul(dr.base, Pow(dr.exponent, i))

\* Mutant: the interval is not capped.
Capped_Uncapped(dr, i) == Backoff(dr, i)

\* sleep = math.Min(d.maxInterval, sleep)
Capped(dr, i) == FMin(dr.maxInterval, Backoff(dr, i))

\* Mutant: the jitter is added to the interval.
Jittered_Plus(dr, i, u) == FMul(Capped(dr, i), FSub(One, FMul(FSub(Zero, u), dr.jitter)))

\* Mutant: the factor is the jitter share itself, not one minus it.
Jittered_NoOneMinus(dr, i, u) == FMul(Capped(dr, i), FMul(u, dr.jitter))

\* sleep *= (1 - (r.Float64() * d.jitter)), u the value drawn
Jittered(dr, i, u) == FMul(Capped(dr, i), FSub(One, FMul(u, dr.jitter)))

\* Mutant: the budget is never found exceeded.
OverBudget_Never(t, dr) == FALSE

\* Mutant: the budget check with >= for >.
OverBudget_NonStrict(t, dr) == t >= dr.maxWait

\* total > d.maxWait
OverBudget(t, dr) == t > dr.maxWait

\* Mutants: the loop condition off by one, either way.
LoopCond_Inclusive(i, dr) == i <= dr.attempts
LoopCond_OneShort(i, dr) == i < dr.attempts - 1

\* attempt < d.attempts, the loop condition
LoopCond(i, dr) == i < dr.attempts

\* What time.Sleep(x) sleeps: a negative or zero duration returns at once.
Slept(x) == IF x > 0 THEN x ELSE 0

----------------------------------------------------------------------------
(* Do *)

\* Do's return: the overall error is x, the errs result is errs[p].
Return(p, x) ==
    /\ pc' = [pc EXCEPT ![p] = "done"]
    /\ ret' = [ret EXCEPT ![p] = x]

Goto(p, l) ==
    /\ pc' = [pc EXCEPT ![p] = l]
    /\ UNCHANGED ret

Logged(p, e) == log' = [log EXCEPT ![p] = Append(log[p], e)]

\* Mutant: errs, attempt and total are kept from the previous call.
DoCall_KeepsHistory(p, f) ==
    /\ doer # NoDoer
    /\ pc[p] \in {"idle", "done"}
    /\ fn' = [fn EXCEPT ![p] = f]
    /\ d' = [d EXCEPT ![p] = doer]
    /\ r' = [r EXCEPT ![p] = NewRand(0)]
    /\ sleep' = [sleep EXCEPT ![p] = 0]
    /\ err' = [err EXCEPT ![p] = "nil"]
    /\ log' = [log EXCEPT ![p] = <<>>]
    /\ pc' = [pc EXCEPT ![p] = IF f = "nil" THEN "done" ELSE "lock"]
    /\ ret' = [ret EXCEPT ![p] = IF f = "nil" THEN errNoFunc ELSE "running"]
    /\ UNCHANGED <<tryVars, opts, doer, newErr, errs, attempt, total>>

\* Mutant: Do without the fn == nil check.
DoCall_NoNilCheck(p, f) ==
    /\ doer # NoDoer
    /\ pc[p] \in {"idle", "done"}
    /\ fn' = [fn EXCEPT ![p] = f]
    /\ d' = [d EXCEPT ![p] = doer]
    /\ r' = [r EXCEPT ![p] = NewRand(0)]
    /\ errs' = [errs EXCEPT ![p] = <<>>]
    /\ attempt' = [attempt EXCEPT ![p] = 0]
    /\ total' = [total EXCEPT ![p] = 0]
    /\ sleep' = [sleep EXCEPT ![p] = 0]
    /\ err' = [err EXCEPT ![p] = "nil"]
    /\ log' = [log EXCEPT ![p] = <<>>]
    /\ pc' = [pc EXCEPT ![p] = "lock"]
    /\ ret' = [ret EXCEPT ![p] = "running"]
    /\ UNCHANGED <<tryVars, opts, doer, newErr>>

\* The call d.Do(f) and its first statement: the receiver d is a copy of the
\* Doer, the results and locals start at their zero values, and a nil fn
\* returns (errs, errNoFunc) at once.
DoCall(p, f) ==
    /\ doer # NoDoer
    /\ pc[p] \in {"idle", "done"}
    /\ fn' = [fn EXCEPT ![p] = f]
    /\ d' = [d EXCEPT ![p] = doer]
    /\ r' = [r EXCEPT ![p] = NewRand(0)]
    /\ errs' = [errs EXCEPT ![p] = <<>>]
    /\ attempt' = [attempt EXCEPT ![p] = 0]
    /\ total' = [total EXCEPT ![p] = 0]
    /\ sleep' = [sleep EXCEPT ![p] = 0]
    /\ err' = [err EXCEPT ![p] = "nil"]
    /\ log' = [log EXCEPT ![p] = <<>>]
    /\ pc' = [pc EXCEPT ![p] = IF f = "nil" THEN "done" ELSE "lock"]
    /\ ret' = [ret EXCEPT ![p] = IF f = "nil" THEN errNoFunc ELSE "running"]
    /\ UNCHANGED <<tryVars, opts, doer, newErr>>

\* d.seedMu.Lock()
SeedLock(p) ==
    /\ pc[p] = "lock"
    /\ d[p].seedMu = "unlocked"
    /\ d' = [d EXCEPT ![p].seedMu = "locked"]
    /\ Goto(p, "inc")
    /\ UNCHANGED <<tryVars, opts, doer, newErr, fn, r, errs, attempt, total, sleep, err, log>>

\* d.seed++
SeedInc(p) ==
    /\ pc[p] = "inc"
    /\ d' = [d EXCEPT ![p].seed = Wrap(d[p].seed + 1)]
    /\ Goto(p, "unlock")
    /\ UNCHANGED <<tryVars, opts, doer, newErr, fn, r, errs, attempt, total, sleep, err, log>>

\* d.seedMu.Unlock(); r := rand.New(rand.NewSource(d.seed)); total and
\* attempt start at 0.
SeedUnlock(p) ==
    /\ pc[p] = "unlock"
    /\ d' = [d EXCEPT ![p].seedMu = "unlocked"]
    /\ r' = [r EXCEPT ![p] = NewRand(d[p].seed)]
    /\ total' = [total EXCEPT ![p] = 0]
    /\ attempt' = [attempt EXCEPT ![p] = 0]
    /\ Goto(p, "for")
    /\ UNCHANGED <<tryVars, opts, doer, newErr, fn, errs, sleep, err, log>>

\* for ...; attempt < d.attempts; ... and, when the loop ends,
\* return errs, ErrMaxAttempts
LoopTest(p) ==
    /\ pc[p] = "for"
    /\ IF LoopCond(attempt[p], d[p])
       THEN Goto(p, "call")
       ELSE Return(p, ErrMaxAttempts)
    /\ UNCHANGED <<tryVars, opts, doer, newErr, fn, d, r, errs, attempt, total, sleep, err, log>>

\* Mutant: a new error is put in front of errs.
CallFn_Prepends(p, res) ==
    /\ pc[p] = "call"
    /\ err' = [err EXCEPT ![p] = res]
    /\ Logged(p, Ev("call", res, 0, FALSE))
    /\ IF res = "nil"
       THEN /\ Return(p, "nil")
            /\ UNCHANGED errs
       ELSE /\ errs' = [errs EXCEPT ![p] = <<res>> \o errs[p]]
            /\ Goto(p, "retry")
    /\ UNCHANGED <<tryVars, opts, doer, newErr, fn, d, r, attempt, total, sleep>>

\* Mutant: a nil result does not end the loop.
CallFn_NoSuccessReturn(p, res) ==
    /\ pc[p] = "call"
    /\ err' = [err EXCEPT ![p] = res]
    /\ Logged(p, Ev("call", res, 0, FALSE))
    /\ IF res = "nil"
       THEN UNCHANGED errs
       ELSE errs' = [errs EXCEPT ![p] = Append(errs[p], res)]
    /\ Goto(p, "retry")
    /\ UNCHANGED <<tryVars, opts, doer, newErr, fn, d, r, attempt, total, sleep>>

\* Mutant: errs is one slice shared by all executions.
CallFn_SharedErrs(p, res) ==
    /\ pc[p] = "call"
    /\ err' = [err EXCEPT ![p] = res]
    /\ Logged(p, Ev("call", res, 0, FALSE))
    /\ IF res = "nil"
       THEN /\ Return(p, "nil")
            /\ UNCHANGED errs
       ELSE /\ errs' = [q \in Procs |-> Append(errs[q], res)]
            /\ Goto(p, "retry")
    /\ UNCHANGED <<tryVars, opts, doer, newErr, fn, d, r, attempt, total, sleep>>

\* Mutant: the result of fn is appended to errs before it is tested for nil.
CallFn_AppendFirst(p, res) ==
    /\ pc[p] = "call"
    /\ err' = [err EXCEPT ![p] = res]
    /\ Logged(p, Ev("call", res, 0, FALSE))
    /\ errs' = [errs EXCEPT ![p] = Append(errs[p], res)]
    /\ IF res = "nil" THEN Return(p, "nil") ELSE Goto(p, "retry")
    /\ UNCHANGED <<tryVars, opts, doer, newErr, fn, d, r, attempt, total, sleep>>

\* err := fn(); if err == nil { return errs, nil }; errs = append(errs, err)
CallFn(p, res) ==
    /\ pc[p] = "call"
    /\ err' = [err EXCEPT ![p] = res]
    /\ Logged(p, Ev("call", res, 0, FALSE))
    /\ IF res = "nil"
       THEN /\ Return(p, "nil")
            /\ UNCHANGED errs
       ELSE /\ errs' = [errs EXCEPT ![p] = Append(errs[p], res)]
            /\ Goto(p, "retry")
    /\ UNCHANGED <<tryVars, opts, doer, newErr, fn, d, r, attempt, total, sleep>>

\* Mutant: the policy is called and its answer is not acted on.
RetryCheck_IgnoresAnswer(p) ==
    /\ pc[p] = "retry"
    /\ \/ /\ d[p].retry = "nil"
          /\ UNCHANGED log
       \/ /\ d[p].retry # "nil"
          /\ \E tryAgain \in BOOLEAN : Logged(p, Ev("retry", err[p], 0, tryAgain))
    /\ Goto(p, "backoff")
    /\ UNCHANGED <<tryVars, opts, doer, newErr, fn, d, r, errs, attempt, total, sleep, err>>

\* if d.retry != nil && !d.retry(err) { return errs, ErrCancelled }
RetryCheck(p) ==
    /\ pc[p] = "retry"
    /\ \/ /\ d[p].retry = "nil"
          /\ Goto(p, "backoff")
          /\ UNCHANGED log
       \/ /\ d[p].retry # "nil"
          /\ \E tryAgain \in BOOLEAN :
                /\ Logged(p, Ev("retry", err[p], 0, tryAgain))
                /\ IF tryAgain THEN Goto(p, "backoff") ELSE Return(p, ErrCancelled)
    /\ UNCHANGED <<tryVars, opts, doer, newErr, fn, d, r, errs, attempt, total, sleep, err>>

\* Mutant: the capped interval, not the jittered delay, is added to total.
ComputeSleep_ChargesCapped(p) ==
    /\ pc[p] = "backoff"
    /\ \E x \in Duration(Jittered(d[p], attempt[p], RFloat64(r[p]))),
          y \in Duration(Capped(d[p], attempt[p])) :
          /\ sleep' = [sleep EXCEPT ![p] = x]
          /\ total' = [total EXCEPT ![p] = Wrap(total[p] + y)]
          /\ Logged(p, Ev("delay", "nil", x, FALSE))
    /\ r' = [r EXCEPT ![p] = Drawn(r[p])]
    /\ IF OverBudget(total'[p], d[p])
       THEN Return(p, ErrTimeout)
       ELSE Goto(p, "sleep")
    /\ UNCHANGED <<tryVars, opts, doer, newErr, fn, d, errs, attempt, err>>

\* The delay: sleep is computed, converted to a Duration and added to total;
\* if total > d.maxWait { return errs, ErrTimeout }
ComputeSleep(p) ==
    /\ pc[p] = "backoff"
    /\ \E x \in Duration(Jittered(d[p], attempt[p], RFloat64(r[p]))) :
          /\ sleep' = [sleep EXCEPT ![p] = x]
          /\ total' = [total EXCEPT ![p] = Wrap(total[p] + x)]
          /\ Logged(p, Ev("delay", "nil", x, FALSE))
    /\ r' = [r EXCEPT ![p] = Drawn(r[p])]
    /\ IF OverBudget(total'[p], d[p])
       THEN Return(p, ErrTimeout)
       ELSE Goto(p, "sleep")
    /\ UNCHANGED <<tryVars, opts, doer, newErr, fn, d, errs, attempt, err>>

\* Mutant: the loop counter is not incremented.
DoSleep_NoIncrement(p) ==
    /\ pc[p] = "sleep"
    /\ Logged(p, Ev("sleep", "nil", sleep[p], FALSE))
    /\ Goto(p, "for")
    /\ UNCHANGED <<tryVars, opts, doer, newErr, fn, d, r, errs, attempt, total, sleep, err>>

\* time.Sleep(time.Nanosecond * time.Duration(sleep)); attempt++
DoSleep(p) ==
    /\ pc[p] = "sleep"
    /\ Logged(p, Ev("sleep", "nil", sleep[p], FALSE))
    /\ attempt' = [attempt EXCEPT ![p] = attempt[p] + 1]
    /\ Goto(p, "for")
    /\ UNCHANGED <<tryVars, opts, doer, newErr, fn, d, r, errs, total, sleep, err>>

\* One step of execution p of Do.
DoStep(p) ==
    \/ \E f \in {"nil", "func"} : DoCall(p, f)
    \/ SeedLock(p)
    \/ SeedInc(p)
    \/ SeedUnlock(p)
    \/ LoopTest(p)
    \/ \E res \in Errs \cup {"nil"} : CallFn(p, res)
    \/ RetryCheck(p)
    \/ ComputeSleep(p)
    \/ DoSleep(p)

----------------------------------------------------------------------------
(* Specifications *)

\* The Options values drawn: every field takes values on both sides of its
\* constraint.
AttemptsVals == 0 .. MaxAttempts
BaseVals == {0, 1, 2}
MaxIntervalVals == {0, 1, 2, MaxInt64}
MaxWaitVals == {0, 1, 2, 6}
ExponentVals == {Num(1, 2), One, Num(2, 1), PosInf, NaN}
JitterVals == {Num(-1, 2), Zero, Num(1, 2), One, Num(3, 2), NaN}

\* NaN is drawn together with Attempts <= 1 only: one round of Do shows what
\* a NaN does to the delay.
AllOptions ==
    {o \in [Attempts : AttemptsVals, Base : BaseVals, MaxInterval : MaxIntervalVals,
            MaxWait : MaxWaitVals, Exponent : ExponentVals, Jitter : JitterVals] :
        (IsNaN(o.Exponent) \/ IsNaN(o.Jitter)) => o.Attempts <= 1}

\* time.Now().UnixNano() at the call of New.
Clock == 0 .. 1

Init ==
    /\ opts = NoOptions
    /\ doer = NoDoer
    /\ newErr = "pending"
    /\ tryOpts = NoOptions
    /\ tryer = NoTryer
    /\ tryErr = "pending"
    /\ pc = [p \in Procs |-> "idle"]
    /\ fn = [p \in Procs |-> "nil"]
    /\ d = [p \in Procs |-> NoDoer]
    /\ r = [p \in Procs |-> NewRand(0)]
    /\ errs = [p \in Procs |-> <<>>]
    /\ attempt = [p \in Procs |-> 0]
    /\ total = [p \in Procs |-> 0]
    /\ sleep = [p \in Procs |-> 0]
    /\ err = [p \in Procs |-> "nil"]
    /\ ret = [p \in Procs |-> "running"]
    /\ log = [p \in Procs |-> <<>>]

\* New is called once, then one caller runs Do, again and again.
Next ==
    \/ /\ newErr = "pending"
       /\ \E retry \in {"nil", "func"}, o \in AllOptions, now \in Clock :
             New(retry, o, now)
    \/ DoStep(1)

Spec == Init /\ [][Next]_vars

----------------------------------------------------------------------------
\* Two callers share one Doer.  The Options drawn are valid and few; the
\* Operation of caller p fails with an error of its own, ErrOf(p).
PairAttemptsVals == 1 .. PairAttempts
PairOptions ==
    [Attempts : PairAttemptsVals, Base : {1, 2}, MaxInterval : {2},
     MaxWait : {2, 6}, Exponent : {Num(2, 1)}, Jitter : {Zero, One}]

ErrOf(p) == IF p = 1 THEN "e1" ELSE "e2"

\* One step of caller p.
PairStep(p) ==
    \/ \E f \in {"nil", "func"} : DoCall(p, f)
    \/ SeedLock(p)
    \/ SeedInc(p)
    \/ SeedUnlock(p)
    \/ LoopTest(p)
    \/ \E res \in {ErrOf(p), "nil"} : CallFn(p, res)
    \/ RetryCheck(p)
    \/ ComputeSleep(p)
    \/ DoSleep(p)

\* New is called once, then two goroutines call Do on the Doer, interleaved
\* in any way, each again and again.
PairNext ==
    \/ /\ newErr = "pending"
       /\ \E retry \in {"nil", "func"}, o \in PairOptions, now \in Clock :
             New(retry, o, now)
    \/ \E p \in Procs : PairStep(p)

SpecPair == Init /\ [][PairNext]_vars

\* The steps of Do after the call: what a goroutine that has entered Do goes
\* on to execute, given that fn, the policy and time.Sleep return.
Run(p) ==
    \/ SeedLock(p)
    \/ SeedInc(p)
    \/ SeedUnlock(p)
    \/ LoopTest(p)
    \/ \E res \in {ErrOf(p), "nil"} : CallFn(p, res)
    \/ RetryCheck(p)
    \/ ComputeSleep(p)
    \/ DoSleep(p)

\* New is called once, then one caller runs Do, again and again, on the few
\* valid Options of PairOptions.
SoloNext ==
    \/ /\ newErr = "pending"
       /\ \E retry \in {"nil", "func"}, o \in PairOptions, now \in Clock :
             New(retry, o, now)
    \/ PairStep(1)

\* The caller under a fair scheduler: a goroutine inside Do is not held back
\* for ever.
SpecSoloFair == Init /\ [][SoloNext]_vars /\ WF_vars(Run(1))

\* The jitter computation on its own, for the interval of the example in the
\* documentation of Options.Jitter.
Interval == 200
JitterTable == {Zero, Num(1, 4), Num(1, 2), Num(3, 4), One}
UVals == {Num(k, UGrid) : k \in 0 .. UGrid - 1}

\* Options whose delay before jitter is Interval at every attempt.
IntervalOptions(j) ==
    [Attempts |-> 1, Base |-> Interval, MaxInterval |-> Interval,
     MaxWait |-> Interval, Exponent |-> One, Jitter |-> j]

\* A Doer built by New from such Options.
JitterInit ==
    /\ \E j \in JitterTable :
          /\ opts = IntervalOptions(j)
          /\ newErr = NewErr(IntervalOptions(j))
          /\ doer = NewDoer("nil", IntervalOptions(j), 0)
    /\ tryOpts = NoOptions
    /\ tryer = NoTryer
    /\ tryErr = "pending"
    /\ pc = [p \in Procs |-> "idle"]
    /\ fn = [p \in Procs |-> "nil"]
    /\ d = [p \in Procs |-> NoDoer]
    /\ r = [p \in Procs |-> NewRand(0)]
    /\ errs = [p \in Procs |-> <<>>]
    /\ attempt = [p \in Procs |-> 0]
    /\ total = [p \in Procs |-> 0]
    /\ sleep = [p \in Procs |-> 0]
    /\ err = [p \in Procs |-> "nil"]
    /\ ret = [p \in Procs |-> "running"]
    /\ log = [p \in Procs |-> <<>>]

\* Lines 291-295 for attempt 0 and a draw u: the float64 sleep is recorded.
JitterStep(u) ==
    /\ log[1] = <<>>
    /\ log' = [log EXCEPT ![1] = <<Ev("jittered", "nil", Jittered(doer, 0, u), FALSE)>>]
    /\ UNCHANGED <<tryVars, opts, doer, newErr, pc, fn, d, r, errs, attempt, total, sleep, err, ret>>

JitterNext == \E u \in UVals : JitterStep(u)

SpecJitter == JitterInit /\ [][JitterNext]_vars

----------------------------------------------------------------------------
(* The Tryer variant (src/unnamed/part_000): Options has Retries, the number *)
(* of retries after the initial attempt, where the Doer's has Attempts; New  *)
(* builds a Tryer and Try runs the loop.  The execution of Try uses the      *)
(* per-execution variables of Do: d[p] is Try's receiver t.                  *)

\* Largest Options.Retries drawn.
MaxRetries == 3

\* New(retry, o) of the variant: the error it returns, by the field it names.
TryerNewErr(o) ==
    IF FLt(o.Exponent, One) THEN "Exponent"
    ELSE IF FLt(o.Jitter, Zero) \/ FGt(o.Jitter, One) THEN "Jitter"
    ELSE "nil"

\* The Tryer that New builds from o; now is time.Now().UnixNano().
NewTryer(retry, o, now) ==
    [nil         |-> FALSE,
     seed        |-> now,
     seedMu      |-> Mutex,
     retries     |-> o.Retries,
     base        |-> ToFloat64(o.Base),
     maxInterval |-> ToFloat64(o.MaxInterval),
     maxWait     |-> o.MaxWait,
     exponent    |-> o.Exponent,
     jitter      |-> o.Jitter,
     retry       |-> retry]

\* New(retry, o): returns (nil, error) or (&Tryer{...}, nil).
TryerNew(retry, o, now) ==
    /\ tryErr = "pending"
    /\ tryOpts' = o
    /\ tryErr' = TryerNewErr(o)
    /\ tryer' = IF TryerNewErr(o) = "nil" THEN NewTryer(retry, o, now) ELSE NoTryer
    /\ UNCHANGED <<opts, doer, newErr, pc, fn, d, r, errs, attempt, total, sleep, err, ret, log>>

\* Mutant: the loop condition of Try with < for <=.
TryCond_Exclusive(i, t) == i < t.retries

\* attempt <= t.retries, the loop condition of Try
TryCond(i, t) == i <= t.retries

\* The call t.Try(f) and its first statement: the receiver t is a copy of
\* the Tryer, the results and locals start at their zero values, and a nil
\* fn returns (errs, errNoFunc) at once.
TryCall(p, f) ==
    /\ tryer # NoTryer
    /\ pc[p] \in {"idle", "done"}
    /\ fn' = [fn EXCEPT ![p] = f]
    /\ d' = [d EXCEPT ![p] = tryer]
    /\ r' = [r EXCEPT ![p] = NewRand(0)]
    /\ errs' = [errs EXCEPT ![p] = <<>>]
    /\ attempt' = [attempt EXCEPT ![p] = 0]
    /\ total' = [total EXCEPT ![p] = 0]
    /\ sleep' = [sleep EXCEPT ![p] = 0]
    /\ err' = [err EXCEPT ![p] = "nil"]
    /\ log' = [log EXCEPT ![p] = <<>>]
    /\ pc' = [pc EXCEPT ![p] = IF f = "nil" THEN "done" ELSE "lock"]
    /\ ret' = [ret EXCEPT ![p] = IF f = "nil" THEN errNoFunc ELSE "running"]
    /\ UNCHANGED <<tryVars, opts, doer, newErr>>

\* t.seedMu.Lock()
TrySeedLock(p) ==
    /\ pc[p] = "lock"
    /\ d[p].seedMu = "unlocked"
    /\ d' = [d EXCEPT ![p].seedMu = "locked"]
    /\ Goto(p, "inc")
    /\ UNCHANGED <<tryVars, opts, doer, newErr, fn, r, errs, attempt, total, sleep, err, log>>

\* t.seed++
TrySeedInc(p) ==
    /\ pc[p] = "inc"
    /\ d' = [d EXCEPT ![p].seed = Wrap(d[p].seed + 1)]
    /\ Goto(p, "unlock")
    /\ UNCHANGED <<tryVars, opts, doer, newErr, fn, r, errs, attempt, total, sleep, err, log>>

\* t.seedMu.Unlock(); r := rand.New(rand.NewSource(t.seed)); total and
\* attempt start at 0.
TrySeedUnlock(p) ==
    /\ pc[p] = "unlock"
    /\ d' = [d EXCEPT ![p].seedMu = "unlocked"]
    /\ r' = [r EXCEPT ![p] = NewRand(d[p].seed)]
    /\ total' = [total EXCEPT ![p] = 0]
    /\ attempt' = [attempt EXCEPT ![p] = 0]
    /\ Goto(p, "for")
    /\ UNCHANGED <<tryVars, opts, doer, newErr, fn, errs, sleep, err, log>>

\* for ...; attempt <= t.retries; ... and, when the loop ends,
\* return errs, ErrMaxAttempts
TryLoopTest(p) ==
    /\ pc[p] = "for"
    /\ IF TryCond(attempt[p], d[p])
       THEN Goto(p, "call")
       ELSE Return(p, ErrMaxAttempts)
    /\ UNCHANGED <<tryVars, opts, doer, newErr, fn, d, r, errs, attempt, total, sleep, err, log>>

\* err := fn(); if err == nil { return errs, nil }; errs = append(errs, err)
TryCallFn(p, res) ==
    /\ pc[p] = "call"
    /\ err' = [err EXCEPT ![p] = res]
    /\ Logged(p, Ev("call", res, 0, FALSE))
    /\ IF res = "nil"
       THEN /\ Return(p, "nil")
            /\ UNCHANGED errs
       ELSE /\ errs' = [errs EXCEPT ![p] = Append(errs[p], res)]
            /\ Goto(p, "retry")
    /\ UNCHANGED <<tryVars, opts, doer, newErr, fn, d, r, attempt, total, sleep>>

\* if t.retry != nil && !t.retry(err) { return errs, ErrCancelled }
TryRetryCheck(p) ==
    /\ pc[p] = "retry"
    /\ \/ /\ d[p].retry = "nil"
          /\ Goto(p, "backoff")
          /\ UNCHANGED log
       \/ /\ d[p].retry # "nil"
          /\ \E tryAgain \in BOOLEAN :
                /\ Logged(p, Ev("retry", err[p], 0, tryAgain))
                /\ IF tryAgain THEN Goto(p, "backoff") ELSE Return(p, ErrCancelled)
    /\ UNCHANGED <<tryVars, opts, doer, newErr, fn, d, r, errs, attempt, total, sleep, err>>

\* The delay of Try, statement for statement that of Do: sleep is computed,
\* converted to a Duration and added to total;
\* if total > t.maxWait { return errs, ErrTimeout }
TryComputeSleep(p) ==
    /\ pc[p] = "backoff"
    /\ \E x \in Duration(Jittered(d[p], attempt[p], RFloat64(r[p]))) :
          /\ sleep' = [sleep EXCEPT ![p] = x]
          /\ total' = [total EXCEPT ![p] = Wrap(total[p] + x)]
          /\ Logged(p, Ev("delay", "nil", x, FALSE))
    /\ r' = [r EXCEPT ![p] = Drawn(r[p])]
    /\ IF OverBudget(total'[p], d[p])
       THEN Return(p, ErrTimeout)
       ELSE Goto(p, "sleep")
    /\ UNCHANGED <<tryVars, opts, doer, newErr, fn, d, errs, attempt, err>>

\* time.Sleep(time.Nanosecond * time.Duration(sleep)); attempt++
TrySleep(p) ==
    /\ pc[p] = "sleep"
    /\ Logged(p, Ev("sleep", "nil", sleep[p], FALSE))
    /\ attempt' = [attempt EXCEPT ![p] = attempt[p] + 1]
    /\ Goto(p, "for")
    /\ UNCHANGED <<tryVars, opts, doer, newErr, fn, d, r, errs, total, sleep, err>>

\* The steps of Try after the call.
TryRun(p) ==
    \/ TrySeedLock(p)
    \/ TrySeedInc(p)
    \/ TrySeedUnlock(p)
    \/ TryLoopTest(p)
    \/ \E res \in {"e1", "nil"} : TryCallFn(p, res)
    \/ TryRetryCheck(p)
    \/ TryComputeSleep(p)
    \/ TrySleep(p)

\* The package documentation's example, durations in units of 50ms:
\* Retries 3, Base 50ms, MaxInterval 1s, MaxWait 2s, Exponent 2, Jitter 0.5.
DocExample ==
    [Retries |-> 3, Base |-> 1, MaxInterval |-> 20, MaxWait |-> 40,
     Exponent |-> Num(2, 1), Jitter |-> Num(1, 2)]

\* The Options drawn for the variant: every field on both sides of its
\* documented range, and the values of the example.
TryerOptions ==
    [Retries : -1 .. MaxRetries, Base : {0, 1, 2}, MaxInterval : {1, 20},
     MaxWait : {0, 2, 40}, Exponent : {Num(1, 2), Num(2, 1)},
     Jitter : {Zero, Num(1, 2), Num(3, 2)}]

\* New is called once, then one caller runs Try, again and again.
TryerNext ==
    \/ /\ tryErr = "pending"
       /\ \E retry \in {"nil", "func"}, o \in TryerOptions, now \in Clock :
             TryerNew(retry, o, now)
    \/ \E f \in {"nil", "func"} : TryCall(1, f)
    \/ TryRun(1)

SpecTryer == Init /\ [][TryerNext]_vars

----------------------------------------------------------------------------
\* Two Doers built from the same Options, one after the other: New is called
\* again with the arguments of the first call, at a later time, and its
\* result replaces the first Doer.  An execution under way keeps the Doer it
\* was called on (its receiver d[p]).
NewAgain(now) ==
    /\ newErr = "nil"
    /\ now > doer.seed
    /\ doer' = NewDoer(doer.retry, opts, now)
    /\ UNCHANGED <<tryVars, opts, newErr, pc, fn, d, r, errs, attempt, total, sleep, err, ret, log>>

\* Valid Options with jitter above 0 and budgets that the delays can exceed.
SeedOptions ==
    [Attempts : 1 .. MaxAttempts, Base : {1, 2}, MaxInterval : {4},
     MaxWait : {2, 4}, Exponent : {Num(2, 1)}, Jitter : {Num(1, 2), One}]

\* Caller 1 runs Do on the first Doer, then New is called again and caller 2
\* runs Do on the second.
SeedsNext ==
    \/ /\ newErr = "pending"
       /\ \E retry \in {"nil", "func"}, o \in SeedOptions : New(retry, o, 0)
    \/ /\ pc[2] = "idle"
       /\ PairStep(1)
    \/ /\ pc[1] = "done"
       /\ \E now \in Clock : NewAgain(now)
    \/ /\ doer # NoDoer /\ doer.seed > 0
       /\ PairStep(2)

SpecSeeds == Init /\ [][SeedsNext]_vars

----------------------------------------------------------------------------
(* Reading the history of an execution *)

\* The positions of log[p] that hold an event of kind e.
At(p, e) == {j \in 1 .. Len(log[p]) : log[p][j].e = e}

\* The number of invocations of fn so far.
Calls(p) == Cardinality(At(p, "call"))

\* The errors of the failed invocations, in invocation order.
RECURSIVE FailuresOf(_)
FailuresOf(l) ==
    IF l = <<>> THEN <<>>
    ELSE IF Head(l).e = "call" /\ Head(l).err # "nil"
         THEN <<Head(l).err>> \o FailuresOf(Tail(l))
         ELSE FailuresOf(Tail(l))

\* The time spent in time.Sleep so far.
RECURSIVE SleptSum(_)
SleptSum(l) ==
    IF l = <<>> THEN 0
    ELSE (IF Head(l).e = "sleep" THEN Slept(Head(l).d) ELSE 0) + SleptSum(Tail(l))

\* The value of the variable total after the first j events: the delays
\* computed so far, added as int64.
RECURSIVE TotalAfter(_, _)
TotalAfter(l, j) ==
    IF j = 0 THEN 0
    ELSE IF l[j].e = "delay" THEN Wrap(TotalAfter(l, j - 1) + l[j].d)
         ELSE TotalAfter(l, j - 1)

\* The sum of the delays computed in the first j events, as a number.
RECURSIVE SumAfter(_, _)
SumAfter(l, j) ==
    IF j = 0 THEN 0
    ELSE IF l[j].e = "delay" THEN SumAfter(l, j - 1) + l[j].d
         ELSE SumAfter(l, j - 1)

\* The overall error Do returns after the history l under Doer dr, read off
\* the last thing the execution did; "running" while it has not yet reached a
\* return.
OutcomeOf(dr, f, l) ==
    IF f = "nil" THEN errNoFunc
    ELSE IF l = <<>> THEN (IF dr.attempts < 1 THEN ErrMaxAttempts ELSE "running")
    ELSE LET e == l[Len(l)]
             n == Cardinality({j \in 1 .. Len(l) : l[j].e = "sleep"})
         IN  IF e.e = "call" /\ e.err = "nil" THEN "nil"
             ELSE IF e.e = "retry" /\ ~e.ans THEN ErrCancelled
             ELSE IF e.e = "delay" /\ TotalAfter(l, Len(l)) > dr.maxWait THEN ErrTimeout
             ELSE IF e.e = "sleep" /\ n >= dr.attempts THEN ErrMaxAttempts
             ELSE "running"

Started(p) == pc[p] # "idle"
Done(p) == pc[p] = "done"
AlwaysFailed(p) == \A j \in At(p, "call") : log[p][j].err # "nil"

\* The six invariants of a configuration, as statements about numbers.
Valid(o) ==
    /\ o.Attempts >= 1
    /\ o.Base > 0
    /\ o.MaxInterval >= o.Base
    /\ o.MaxWait >= o.Base
    /\ FGe(o.Exponent, One)
    /\ FGe(o.Jitter, Zero) /\ FGe(One, o.Jitter)

\* The largest Duration the delay of round i can be, over every draw and
\* every outcome of the conversion.
MaxOf(S) == CHOOSE x \in S : \A y \in S : y <= x
MaxDelay(dr, i) ==
    MaxOf(UNION {Duration(Jittered(dr, i, u)) : u \in {Zero, Num(1, 2)}})

RECURSIVE MaxTotal(_, _)
MaxTotal(dr, n) == IF n = 0 THEN 0 ELSE MaxTotal(dr, n - 1) + MaxDelay(dr, n - 1)

\* maxWait is large enough that no round of the execution can time out.
NeverTimesOut(dr) == MaxTotal(dr, dr.attempts) <= dr.maxWait

----------------------------------------------------------------------------
\* The Doer and the Tryer side by side.  A Doer is built with Attempts = n + 1
\* and a Tryer with Retries = n and the same other settings, policy and
\* seed; the same Operation is given to Do and then to Try.  So that both get
\* the same results and answers, the Operation and the policy are fixed
\* functions of the number of times they have been called.

\* The result of the k-th invocation of Operation f.
Result(f, k) ==
    IF f = "first" THEN "nil"
    ELSE IF f = "second" /\ k = 2 THEN "nil"
    ELSE IF f = "third" /\ k = 3 THEN "nil"
    ELSE "e1"

TwinOperations == {"nil", "fails", "first", "second", "third"}

\* The answer of policy q the k-th time it is called.
Answer(q, k) ==
    IF q = "never" THEN FALSE
    ELSE IF q = "once" THEN k <= 1
    ELSE TRUE

TwinPolicies == {"nil", "always", "never", "once"}

\* The Options of the Doer, and those of the Tryer that correspond.
TwinOptions ==
    [Attempts : 1 .. MaxRetries + 1, Base : {1, 2}, MaxInterval : {4},
     MaxWait : {4, 40}, Exponent : {Num(2, 1)}, Jitter : {Zero, One}]

Retrying(o) ==
    [Retries |-> o.Attempts - 1, Base |-> o.Base, MaxInterval |-> o.MaxInterval,
     MaxWait |-> o.MaxWait, Exponent |-> o.Exponent, Jitter |-> o.Jitter]

\* The steps of Do after the call, on the fixed Operation and policy.
TwinRun(p) ==
    \/ SeedLock(p)
    \/ SeedInc(p)
    \/ SeedUnlock(p)
    \/ LoopTest(p)
    \/ CallFn(p, Result(fn[p], Calls(p) + 1))
    \/ /\ RetryCheck(p)
       /\ log'[p] # log[p] =>
             log'[p][Len(log'[p])].ans =
                 Answer(d[p].retry, Cardinality(At(p, "retry")) + 1)
    \/ ComputeSleep(p)
    \/ DoSleep(p)

\* The steps of Try after the call, on the fixed Operation and policy.
TwinTryRun(p) ==
    \/ TrySeedLock(p)
    \/ TrySeedInc(p)
    \/ TrySeedUnlock(p)
    \/ TryLoopTest(p)
    \/ TryCallFn(p, Result(fn[p], Calls(p) + 1))
    \/ /\ TryRetryCheck(p)
       /\ log'[p] # log[p] =>
             log'[p][Len(log'[p])].ans =
                 Answer(d[p].retry, Cardinality(At(p, "retry")) + 1)
    \/ TryComputeSleep(p)
    \/ TrySleep(p)

\* Both constructors are called, then caller 1 runs Do and, when it has
\* returned, caller 2 runs Try on the same Operation; again and again.
TwinNext ==
    \/ /\ newErr = "pending"
       /\ \E retry \in TwinPolicies, o \in TwinOptions, now \in Clock :
             New(retry, o, now)
    \/ /\ newErr = "nil"
       /\ TryerNew(doer.retry, Retrying(opts), doer.seed)
    \/ /\ tryErr = "nil" /\ pc[2] \in {"idle", "done"}
       /\ \E f \in TwinOperations : DoCall(1, f)
    \/ TwinRun(1)
    \/ /\ pc[1] = "done"
       /\ TryCall(2, fn[1])
    \/ TwinTryRun(2)

SpecTwin == Init /\ [][TwinNext]_vars

----------------------------------------------------------------------------
(* C1: if the operation fails on every invocation, no retry policy is      *)
(* configured and maxWait covers the largest possible sum of the delays,   *)
(* Do invokes the operation exactly attempts times and returns             *)
(* ErrMaxAttempts with len(errs) = attempts.                               *)
C1_AlwaysFailing(p) ==
    /\ Done(p) /\ fn[p] = "func" /\ d[p].retry = "nil"
    /\ AlwaysFailed(p) /\ NeverTimesOut(d[p])

C1_MaxAttempts ==
    \A p \in Procs :
        C1_AlwaysFailing(p) =>
            /\ ret[p] = ErrMaxAttempts
            /\ Calls(p) = opts.Attempts
            /\ Len(errs[p]) = opts.Attempts

C1_Witness ==
    /\ C1_AlwaysFailing(1)
    /\ opts.Attempts = 3 /\ Calls(1) = 3
    /\ SleptSum(log[1]) > 3

(* C2: in every execution of Do the number of invocations of the operation *)
(* never exceeds attempts.                                                 *)
C2_AtMostAttempts ==
    \A p \in Procs : Started(p) => Calls(p) <= opts.Attempts

C2_Witness ==
    /\ pc[1] = "sleep"
    /\ Valid(opts) /\ Calls(1) = opts.Attempts
    /\ opts.Attempts = 2

(* C3: if the operation succeeds on invocation k after k-1 failures, Do   *)
(* stops at that invocation (no policy call, no delay, no sleep after it)  *)
(* and returns a nil error with exactly k-1 entries in errs; and a nil     *)
(* error is returned in no other way.                                      *)
C3_Succeeded(p, j) == log[p][j].e = "call" /\ log[p][j].err = "nil"

C3_SuccessStops ==
    \A p \in Procs :
        /\ \A j \in 1 .. Len(log[p]) :
              C3_Succeeded(p, j) =>
                  /\ j = Len(log[p])
                  /\ Done(p) /\ ret[p] = "nil"
                  /\ Len(errs[p]) = Calls(p) - 1
        /\ ret[p] = "nil" =>
              /\ log[p] # <<>>
              /\ C3_Succeeded(p, Len(log[p]))

C3_Witness ==
    /\ Done(1) /\ ret[1] = "nil"
    /\ Calls(1) = 3 /\ Len(errs[1]) = 2
    /\ d[1].retry # "nil" /\ SleptSum(log[1]) > 0

(* C4: when the retry policy returns false for the error of the k-th       *)
(* failed invocation, Do stops there: it returns ErrCancelled with         *)
(* len(errs) = k after exactly k invocations and nothing (no delay, no     *)
(* sleep, no invocation) follows; ErrCancelled is returned in no other way.*)
C4_Rejected(p, j) == log[p][j].e = "retry" /\ ~log[p][j].ans

C4_CancelStops ==
    \A p \in Procs :
        /\ \A j \in 1 .. Len(log[p]) :
              C4_Rejected(p, j) =>
                  /\ j = Len(log[p])
                  /\ Done(p) /\ ret[p] = ErrCancelled
                  /\ Len(errs[p]) = Calls(p)
                  /\ Calls(p) = Cardinality(At(p, "retry"))
                  /\ log[p][j].err = errs[p][Len(errs[p])]
        /\ ret[p] = ErrCancelled =>
              /\ log[p] # <<>>
              /\ C4_Rejected(p, Len(log[p]))

C4_Witness ==
    /\ Done(1) /\ ret[1] = ErrCancelled
    /\ Calls(1) = 2 /\ Len(errs[1]) = 2

C4_WitnessFirst ==
    /\ Done(1) /\ ret[1] = ErrCancelled
    /\ Calls(1) = 1 /\ Len(errs[1]) = 1 /\ SleptSum(log[1]) = 0

(* C5: for every configuration, Do called with a nil operation returns an  *)
(* empty errs and errNoFunc, without invoking anything, calling the policy *)
(* or sleeping.                                                            *)
C5_NilOperation ==
    \A p \in Procs :
        (Started(p) /\ fn[p] = "nil") =>
            /\ Done(p) /\ ret[p] = errNoFunc
            /\ errs[p] = <<>>
            /\ log[p] = <<>>

C5_Witness ==
    /\ Done(1) /\ fn[1] = "nil" /\ ret[1] = errNoFunc
    /\ Valid(opts) /\ opts.Attempts = 3

(* C6: New returns a non-nil Doer and a nil error if and only if all six  *)
(* invariants hold; if any is violated it returns a nil Doer and a non-nil *)
(* error.                                                                  *)
C6_ConstructsIffValid ==
    newErr # "pending" =>
        /\ (doer # NoDoer /\ newErr = "nil") <=> Valid(opts)
        /\ ~Valid(opts) => (doer = NoDoer /\ newErr # "nil")

\* What does hold: New returns exactly one of a Doer and an error, and for
\* options whose Exponent and Jitter are numbers (not NaN) it returns the
\* Doer if and only if all six invariants hold.
C6_NumbersOnly ==
    newErr # "pending" =>
        /\ (doer # NoDoer) <=> (newErr = "nil")
        /\ (~IsNaN(opts.Exponent) /\ ~IsNaN(opts.Jitter)) =>
              ((newErr = "nil") <=> Valid(opts))

(* C7: when a configuration violates several invariants at once, the error *)
(* of New names the first violated constraint in the order attempts, base, *)
(* maxInterval-vs-base, maxWait-vs-base, exponent, jitter.                 *)
Violated(o) ==
    <<~(o.Attempts >= 1), ~(o.Base > 0), ~(o.MaxInterval >= o.Base),
      ~(o.MaxWait >= o.Base), ~FGe(o.Exponent, One),
      ~(FGe(o.Jitter, Zero) /\ FGe(One, o.Jitter))>>
FieldOrder == <<"Attempts", "Base", "MaxInterval", "MaxWait", "Exponent", "Jitter">>
FirstViolated(o) == FieldOrder[CHOOSE i \in 1 .. 6 : Violated(o)[i] /\ \A j \in 1 .. i - 1 : ~Violated(o)[j]]
NumViolated(o) == Cardinality({i \in 1 .. 6 : Violated(o)[i]})

C7_FirstFailureWins ==
    (newErr # "pending" /\ NumViolated(opts) >= 2) => newErr = FirstViolated(opts)

\* What does hold: the order of the checks, for options whose Exponent and
\* Jitter are numbers.
C7_NumbersOnly ==
    (newErr # "pending" /\ NumViolated(opts) >= 1
        /\ ~IsNaN(opts.Exponent) /\ ~IsNaN(opts.Jitter)) =>
            newErr = FirstViolated(opts)

(* C8: in every reachable state of every execution of Do (on a Doer built *)
(* from a valid configuration), the sum of the delays actually slept so    *)
(* far is at most maxWait.                                                 *)
C8_SleptWithinMaxWait ==
    \A p \in Procs :
        (Started(p) /\ Valid(opts)) => SleptSum(log[p]) <= opts.MaxWait

\* What does hold: the variable total, the int64 sum of the delays charged,
\* is within maxWait whenever Do sleeps; the time slept exceeds maxWait only
\* if a delay was converted out of range or the sum wrapped around.
C8_TotalWithinMaxWait ==
    \A p \in Procs :
        /\ pc[p] = "sleep" => total[p] <= d[p].maxWait
        /\ \A j \in At(p, "sleep") : TotalAfter(log[p], j) <= d[p].maxWait

(* C9: after a failed attempt that the policy allows, if adding the newly  *)
(* computed delay to the running total makes the total exceed maxWait, Do  *)
(* returns ErrTimeout at once, without sleeping for that delay and without *)
(* invoking the operation again; otherwise it sleeps for exactly the       *)
(* computed delay before the next step.  The running total is the sum of   *)
(* the delays computed so far.                                             *)
C9_DelayAt(p, j) == log[p][j].e = "delay"

C9_AfterAllowedFailure(p, j) ==
    /\ j > 1
    /\ \/ /\ log[p][j - 1].e = "retry" /\ log[p][j - 1].ans
          /\ d[p].retry # "nil"
       \/ /\ log[p][j - 1].e = "call" /\ log[p][j - 1].err # "nil"
          /\ d[p].retry = "nil"

\* What follows the delay at position j, given whether it is over budget.
C9_Outcome(p, j, over) ==
    IF over
    THEN /\ j = Len(log[p])
         /\ Done(p) /\ ret[p] = ErrTimeout
    ELSE IF j = Len(log[p])
         THEN pc[p] = "sleep" /\ sleep[p] = log[p][j].d
         ELSE /\ log[p][j + 1].e = "sleep"
              /\ log[p][j + 1].d = log[p][j].d

C9_TimeoutOrSleep ==
    \A p \in Procs :
        \A j \in 1 .. Len(log[p]) :
            C9_DelayAt(p, j) =>
                /\ C9_AfterAllowedFailure(p, j)
                /\ C9_Outcome(p, j, SumAfter(log[p], j) > d[p].maxWait)

\* The same on the int64 variable total of Do, which wraps around: this is
\* the control flow of lines 297-302, and it holds.
C9_OnWrappedTotal ==
    \A p \in Procs :
        /\ \A j \in 1 .. Len(log[p]) :
              C9_DelayAt(p, j) =>
                  /\ C9_AfterAllowedFailure(p, j)
                  /\ C9_Outcome(p, j, TotalAfter(log[p], j) > d[p].maxWait)
        /\ ret[p] = ErrTimeout =>
              /\ log[p] # <<>>
              /\ C9_DelayAt(p, Len(log[p]))
        /\ \A j \in At(p, "sleep") : j > 1 /\ C9_DelayAt(p, j - 1)

\* A timeout after two slept delays, under a policy and full jitter.
C9_TimeoutReached ==
    /\ Done(1) /\ ret[1] = ErrTimeout
    /\ Valid(opts) /\ opts.Jitter = One
    /\ Calls(1) = 3 /\ SleptSum(log[1]) > 0
    /\ d[1].retry # "nil"

(* C10: with maxWait = base = maxInterval, jitter = 0, no policy and an    *)
(* operation that always fails, Do returns ErrTimeout after exactly one    *)
(* invocation (len(errs) = 1).                                             *)
C10_Case(p) ==
    /\ Done(p) /\ fn[p] = "func" /\ d[p].retry = "nil" /\ AlwaysFailed(p)
    /\ Valid(opts)
    /\ opts.MaxWait = opts.Base /\ opts.MaxInterval = opts.Base
    /\ opts.Jitter = Zero

MinOf(S) == CHOOSE x \in S : \A y \in S : x <= y
MinDelay(dr, i) ==
    MinOf(UNION {Duration(Jittered(dr, i, u)) : u \in {Zero, Num(1, 2)}})

RECURSIVE MinTotal(_, _)
MinTotal(dr, n) == IF n = 0 THEN 0 ELSE MinTotal(dr, n - 1) + MinDelay(dr, n - 1)

C11_Case(p) ==
    /\ Done(p) /\ fn[p] = "func" /\ d[p].retry = "nil" /\ AlwaysFailed(p)
    /\ MinTotal(d[p], d[p].attempts) > d[p].maxWait

C11_AlwaysTimesOut ==
    \A p \in Procs : C11_Case(p) => ret[p] = ErrTimeout

\* The test case at scale: the timeout comes only after the third invocation.
C11_Witness ==
    /\ C11_Case(1)
    /\ opts.Attempts = 3 /\ opts.Base = 2 /\ opts.MaxInterval = MaxInt64
    /\ opts.MaxWait = 6 /\ opts.Exponent = Num(2, 1) /\ opts.Jitter = Num(1, 2)
    /\ Calls(1) = 3 /\ ret[1] = ErrTimeout

(* C12: every execution of Do with a non-nil operation increments the      *)
(* shared seed of the Doer and seeds its generator from the result, so two *)
(* executions on one Doer, one after the other or interleaved, never use   *)
(* the same seed, and the seed of the Doer is never behind the seed an     *)
(* execution used.                                                         *)
Seeded(p) == fn[p] = "func" /\ pc[p] \notin {"idle", "lock", "inc", "unlock"}

C12_DistinctSeeds ==
    /\ \A p \in Procs : Seeded(p) => r[p].seed <= doer.seed
    /\ \A p, q \in Procs :
          (p # q /\ Seeded(p) /\ Seeded(q)) => r[p].seed # r[q].seed

\* What the code does: d is a copy of the Doer, d.seed++ changes the copy,
\* the seed of the Doer stays what New set and every execution seeds its
\* generator with that value plus one.
C12_SeedNeverMoves ==
    \A p \in Procs : Seeded(p) => r[p].seed = doer.seed + 1

(* C13: when an execution of Do with a non-nil operation has returned, the *)
(* number of invocations is len(errs) + 1 if the overall error is nil and  *)
(* len(errs) if it is ErrCancelled, ErrTimeout or ErrMaxAttempts.          *)
C13_InvocationCount ==
    \A p \in Procs :
        (Done(p) /\ fn[p] = "func") =>
            IF ret[p] = "nil"
            THEN Calls(p) = Len(errs[p]) + 1
            ELSE /\ ret[p] \in {ErrCancelled, ErrTimeout, ErrMaxAttempts}
                 /\ Calls(p) = Len(errs[p])

C13_Witness ==
    /\ Done(1) /\ fn[1] = "func" /\ ret[1] = ErrTimeout
    /\ Calls(1) = 2 /\ Len(errs[1]) = 2
    /\ Valid(opts)

(* C14: whatever the outcome, errs holds exactly the errors returned by    *)
(* the failed invocations of this execution, one entry each, in invocation *)
(* order.                                                                  *)
C14_HistoryIsFailures ==
    \A p \in Procs :
        (Started(p) /\ fn[p] = "func") => errs[p] = FailuresOf(log[p])

C14_Witness ==
    /\ Done(1) /\ ret[1] = ErrMaxAttempts
    /\ errs[1] = <<"e2", "e1", "e2">>

(* C15: every call of Do returns, with exactly one of the five outcomes    *)
(* errNoFunc, nil, ErrCancelled, ErrTimeout, ErrMaxAttempts, which are     *)
(* pairwise different, after at most attempts iterations of the loop.      *)
Outcomes == {errNoFunc, "nil", ErrCancelled, ErrTimeout, ErrMaxAttempts}

C15_OneOutcome(p) ==
    /\ Cardinality(Outcomes) = 5
    /\ IF Done(p) THEN ret[p] \in Outcomes ELSE ret[p] = "running"
    /\ Started(p) =>
          /\ attempt[p] <= d[p].attempts
          /\ Calls(p) <= d[p].attempts
          /\ Cardinality(At(p, "sleep")) <= d[p].attempts

C15_Terminates ==
    /\ [](\A p \in Procs : C15_OneOutcome(p))
    /\ \A p \in Procs : (pc[p] = "lock") ~> Done(p)

C15_Witness ==
    /\ Done(1) /\ ret[1] = ErrMaxAttempts
    /\ d[1].attempts = 2 /\ attempt[1] = 2 /\ Calls(1) = 2

(* C16: the retry policy is never called with a nil error; it is called    *)
(* exactly once per failed invocation, with the error of that invocation,  *)
(* after the error is appended to errs and before any delay is computed,   *)
(* and never after a success; with no policy every failure is retried      *)
(* (ErrCancelled is not returned).                                         *)
C16_FailedCall(p, j) == log[p][j].e = "call" /\ log[p][j].err # "nil"

C16_PolicyCalls ==
    \A p \in Procs :
        /\ \A j \in At(p, "retry") :
              /\ log[p][j].err # "nil"
              /\ d[p].retry # "nil"
              /\ j > 1 /\ C16_FailedCall(p, j - 1)
              /\ log[p][j].err = log[p][j - 1].err
        /\ pc[p] = "retry" =>
              /\ err[p] # "nil"
              /\ errs[p] # <<>> /\ errs[p][Len(errs[p])] = err[p]
              /\ C16_FailedCall(p, Len(log[p]))
        /\ (Started(p) /\ fn[p] = "func" /\ d[p].retry # "nil") =>
              \A j \in 1 .. Len(log[p]) :
                  /\ C16_FailedCall(p, j) =>
                        IF j = Len(log[p]) THEN pc[p] = "retry"
                        ELSE log[p][j + 1].e = "retry"
                  /\ log[p][j].e = "delay" => j > 1 /\ log[p][j - 1].e = "retry"
        /\ (Started(p) /\ fn[p] = "func" /\ d[p].retry = "nil") =>
              /\ ret[p] # ErrCancelled
              /\ \A j \in 1 .. Len(log[p]) :
                    C16_FailedCall(p, j) =>
                        IF j = Len(log[p]) THEN pc[p] \in {"retry", "backoff"}
                        ELSE log[p][j + 1].e = "delay"

C16_Witness ==
    /\ Done(1) /\ d[1].retry # "nil" /\ ret[1] = "nil"
    /\ Cardinality(At(1, "retry")) = 2 /\ Calls(1) = 3
    /\ errs[1] = <<"e1", "e2">>

(* C17: for every valid configuration, attempt index i and random draw,    *)
(* the delay computed at lines 291-295 satisfies                           *)
(* 0 <= delay <= capped <= maxInterval, capped being                       *)
(* min(maxInterval, base * exponent^i) on the float64 fields of the Doer;  *)
(* the delay before jitter at i = 0 is exactly base.                       *)
FEq(x, y) ==
    /\ ~IsNaN(x) /\ ~IsNaN(y)
    /\ IF x.k = "inf" \/ y.k = "inf"
       THEN x.k = y.k /\ x.n = y.n
       ELSE x.n * y.d = y.n * x.d

\* The values r.Float64() takes in the model.
Draws == {Zero, Num(1, 2)}

\* Stated where Do computes the delay, for the index it has reached.
C17_DelayBounds ==
    \A p \in Procs :
        (pc[p] = "backoff" /\ Valid(opts)) =>
            /\ attempt[p] = 0 =>
                  /\ FEq(Backoff(d[p], 0), d[p].base)
                  /\ FEq(Capped(d[p], 0), d[p].base)
            /\ \A u \in Draws :
                  /\ FGe(Jittered(d[p], attempt[p], u), Zero)
                  /\ FGe(Capped(d[p], attempt[p]), Jittered(d[p], attempt[p], u))
            /\ FGe(d[p].maxInterval, Capped(d[p], attempt[p]))
            /\ \/ FEq(Capped(d[p], attempt[p]), Backoff(d[p], attempt[p]))
               \/ FEq(Capped(d[p], attempt[p]), d[p].maxInterval)

\* An execution at its third delay, where the cap is in force and the
\* jitter has taken the delay below it.
C17_Witness ==
    /\ pc[1] = "sleep" /\ attempt[1] = 2
    /\ Valid(opts) /\ opts.Jitter = One
    /\ FLt(doer.maxInterval, Backoff(doer, 2))
    /\ sleep[1] > 0 /\ sleep[1] < Trunc(Capped(doer, 2))

(* C18: for an interval of 200 before jitter, the delay after jitter is    *)
(* exactly 200 when Jitter is 0, between 150 and 200 when Jitter is 0.75,  *)
(* between 100 and 200 when it is 0.5, between 50 and 200 when it is 0.25, *)
(* and between 0 and 200 when it is 1.                                     *)
C18_Computed == log[1] # <<>> /\ log[1][1].e = "jittered"

C18_Between(lo, hi) ==
    /\ FGe(log[1][1].d, Num(lo, 1))
    /\ FGe(Num(hi, 1), log[1][1].d)

C18_DocLow(j) ==
    IF j = Zero THEN 200
    ELSE IF j = Num(3, 4) THEN 150
    ELSE IF j = Num(1, 2) THEN 100
    ELSE IF j = Num(1, 4) THEN 50
    ELSE 0

C18_Low(j) ==
    IF j = Zero THEN 200
    ELSE IF j = Num(3, 4) THEN 50
    ELSE IF j = Num(1, 2) THEN 100
    ELSE IF j = Num(1, 4) THEN 150
    ELSE 0

C19_Rounds == 0 .. MaxAttempts

\* The index of the delay logged at position j: the sleeps before it.
C19_IndexAt(p, j) == Cardinality({k \in At(p, "sleep") : k < j})

\* Stated where Do computes the delay, for the index i it has reached.
C19_AtIndex(dr, i) ==
    /\ \A u \in Draws : FEq(Jittered(dr, i, u), Capped(dr, i))
    /\ (FGt(dr.exponent, One) /\ FLt(Backoff(dr, i), dr.maxInterval)) =>
          /\ FEq(Capped(dr, i), Backoff(dr, i))
          /\ FLt(Capped(dr, i), Capped(dr, i + 1))
    /\ ~FLt(Backoff(dr, i), dr.maxInterval) =>
          \A k \in C19_Rounds : k >= i => FEq(Capped(dr, k), dr.maxInterval)
    /\ FEq(dr.exponent, One) => FEq(Capped(dr, i), dr.base)

C19_NoJitter ==
    \A p \in Procs :
        (Started(p) /\ fn[p] = "func" /\ Valid(opts) /\ opts.Jitter = Zero) =>
            /\ pc[p] = "backoff" => C19_AtIndex(d[p], attempt[p])
            /\ \A j \in At(p, "delay") :
                  /\ log[p][j].d \in Duration(Capped(d[p], C19_IndexAt(p, j)))
                  /\ Cardinality(Duration(Capped(d[p], C19_IndexAt(p, j)))) = 1 =>
                        log[p][j].d = Trunc(Capped(d[p], C19_IndexAt(p, j)))
            /\ Done(p) => ret[p] = OutcomeOf(d[p], fn[p], log[p])

\* Delays 1, 2, 2: growth, then the cap.
C19_Witness ==
    /\ pc[1] = "sleep" /\ attempt[1] = 2 /\ fn[1] = "func"
    /\ Valid(opts) /\ opts.Jitter = Zero /\ opts.Exponent = Num(2, 1)
    /\ opts.Base = 1 /\ opts.MaxInterval = 2
    /\ sleep[1] = 2 /\ SleptSum(log[1]) = 3

(* C20: under any interleaving of two executions of Do on one Doer, the    *)
(* errs, attempt and total of an execution are those of its own history:   *)
(* errs holds the errors of its own invocations and no other, attempt      *)
(* counts its own sleeps, total sums its own delays, its outcome is the    *)
(* one its own history gives, and no step of one execution changes         *)
(* anything of the other or of the Doer.                                   *)
Local(p) ==
    <<pc[p], fn[p], d[p], r[p], errs[p], attempt[p], total[p], sleep[p],
      err[p], ret[p], log[p]>>

C20_OwnHistory(p) ==
    (Started(p) /\ fn[p] = "func") =>
        /\ errs[p] = FailuresOf(log[p])
        /\ \A k \in 1 .. Len(errs[p]) : errs[p][k] = ErrOf(p)
        /\ attempt[p] = Cardinality(At(p, "sleep"))
        /\ total[p] = TotalAfter(log[p], Len(log[p]))
        /\ Done(p) => ret[p] = OutcomeOf(d[p], fn[p], log[p])
        /\ (~Done(p) /\ OutcomeOf(d[p], fn[p], log[p]) # "running") => pc[p] = "for"
        /\ [d[p] EXCEPT !.seed = 0, !.seedMu = Mutex] = [doer EXCEPT !.seed = 0]

C20_StepOfOne ==
    /\ \A p, q \in Procs :
          (p # q /\ Local(p)' # Local(p)) => Local(q)' = Local(q)
    /\ doer # NoDoer => doer' = doer

C20_Isolated ==
    /\ [](\A p \in Procs : C20_OwnHistory(p))
    /\ [][C20_StepOfOne]_vars

\* Both executions under way at once, each with failures of its own.
C20_Witness ==
    /\ pc[1] = "sleep" /\ attempt[1] = 1 /\ errs[1] = <<"e1", "e1">>
    /\ pc[2] = "retry" /\ errs[2] = <<"e2">>
    /\ total[1] > 0

(* C21: Do leaves the configuration of the Doer (attempts, base,           *)
(* maxInterval, maxWait, exponent, jitter, policy) as New set it, and      *)
(* nothing of an execution outlives it: every call of Do starts with       *)
(* attempt 0, total 0 and an empty errs, however the earlier executions on *)
(* the Doer ended.                                                         *)
Config(dr) == [dr EXCEPT !.seed = 0, !.seedMu = Mutex]

\* The execution has not yet invoked fn.
C21_Fresh(p) ==
    /\ errs[p] = <<>> /\ attempt[p] = 0 /\ total[p] = 0
    /\ Config(d[p]) = Config(doer)

C21_Step ==
    /\ doer # NoDoer => Config(doer') = Config(doer)
    /\ \A p \in Procs :
          (pc[p] \in {"idle", "done"} /\ Local(p)' # Local(p)) =>
              /\ errs'[p] = <<>> /\ attempt'[p] = 0 /\ total'[p] = 0
              /\ Config(d'[p]) = Config(doer)

C21_Stateless ==
    /\ [](\A p \in Procs :
             (Started(p) /\ fn[p] = "func" /\ log[p] = <<>>) => C21_Fresh(p))
    /\ [][C21_Step]_vars

\* One execution has ended in a timeout after two failures and a sleep;
\* another is at the top of its loop with nothing behind it.
C21_Witness ==
    /\ Done(1) /\ ret[1] = ErrTimeout /\ Len(errs[1]) = 2 /\ total[1] > 0
    /\ pc[2] = "for" /\ fn[2] = "func" /\ log[2] = <<>> /\ C21_Fresh(2)

(* C22: in the Tryer variant, a Tryer built from the package documentation's *)
(* example (Retries 3, Base 50ms, MaxInterval 1s, MaxWait 2s, Exponent 2,    *)
(* Jitter 0.5) and given an operation that always fails invokes it exactly   *)
(* 3 times and Try returns ErrMaxAttempts.                                   *)
C22_Case(p) ==
    /\ tryOpts = DocExample /\ Done(p) /\ fn[p] = "func"
    /\ AlwaysFailed(p)
    /\ \A j \in At(p, "retry") : log[p][j].ans

C22_ThreeAttempts ==
    \A p \in Procs :
        C22_Case(p) => Calls(p) = 3 /\ ret[p] = ErrMaxAttempts

\* What Try does on the example: four invocations, four delays.
C22_FourAttempts ==
    \A p \in Procs :
        C22_Case(p) =>
            /\ Calls(p) = 4 /\ Len(errs[p]) = 4
            /\ ret[p] = ErrMaxAttempts
            /\ Cardinality(At(p, "sleep")) = 4

C22_Reached == C22_Case(1) /\ Calls(1) = 4

(* C23: in the Tryer variant, New returns an error whenever a field of       *)
(* Options is outside its documented range (Retries < 0, MaxInterval < Base, *)
(* MaxWait < Base, Exponent < 1, Jitter outside [0, 1]), so Try never runs   *)
(* with a negative retry count.                                              *)
C23_OutOfRange(o) ==
    \/ o.Retries < 0
    \/ o.MaxInterval < o.Base
    \/ o.MaxWait < o.Base
    \/ FLt(o.Exponent, One)
    \/ FLt(o.Jitter, Zero) \/ FGt(o.Jitter, One)

C23_RejectsOutOfRange ==
    /\ (tryErr # "pending" /\ C23_OutOfRange(tryOpts)) =>
          tryErr # "nil" /\ tryer = NoTryer
    /\ \A p \in Procs : (Started(p) /\ fn[p] = "func") => d[p].retries >= 0

\* What New of the variant checks: Exponent and Jitter, and nothing else.
C23_ChecksTwoFields ==
    tryErr # "pending" =>
        (tryErr = "nil" <=>
            ~(\/ FLt(tryOpts.Exponent, One)
              \/ FLt(tryOpts.Jitter, Zero) \/ FGt(tryOpts.Jitter, One)))

\* Try on a Tryer with Retries -1: ErrMaxAttempts and no invocation.
C23_NegativeRetries ==
    /\ Done(1) /\ fn[1] = "func" /\ d[1].retries = -1
    /\ ret[1] = ErrMaxAttempts /\ Calls(1) = 0

(* C24: backoff delays occur only between consecutive attempts: once the     *)
(* attempts-th invocation has failed, Do computes, charges and sleeps no     *)
(* further delay.                                                            *)
C24_CallsBefore(p, j) == Cardinality({k \in At(p, "call") : k < j})

C24_NoDelayAfterFinal ==
    \A p \in Procs :
        (Started(p) /\ fn[p] = "func") =>
            \A j \in At(p, "delay") \cup At(p, "sleep") :
                C24_CallsBefore(p, j) < d[p].attempts

\* What Do does: the delay of round i follows the failure of invocation i+1,
\* the last one included.
C24_DelayAfterEveryFailure ==
    \A p \in Procs :
        (Done(p) /\ fn[p] = "func" /\ ret[p] = ErrMaxAttempts) =>
            /\ Cardinality(At(p, "delay")) = d[p].attempts
            /\ Cardinality(At(p, "sleep")) = d[p].attempts

\* The last invocation allowed has failed and Do has slept after it.
C24_SleptAfterFinal ==
    /\ Done(1) /\ ret[1] = ErrMaxAttempts /\ d[1].attempts = 1
    /\ Calls(1) = 1 /\ SleptSum(log[1]) > 0

(* C25: the increment of the seed and the read of the value that seeds the   *)
(* generator happen while the Doer's one mutex is held, and at most one      *)
(* execution is between Lock and Unlock of the seed section at any time.     *)
C25_InSeedSection(p) == pc[p] \in {"inc", "unlock"}

C25_MutualExclusion ==
    /\ \A p, q \in Procs :
          (p # q /\ C25_InSeedSection(p)) => ~C25_InSeedSection(q)
    /\ \A p \in Procs :
          C25_InSeedSection(p) => doer.seedMu = "locked"

\* What the code has: each execution locks the mutex of its own copy of the
\* Doer, and the Doer's mutex is never locked.
C25_OwnCopyLocked ==
    /\ doer # NoDoer => doer.seedMu = "unlocked"
    /\ \A p \in Procs : C25_InSeedSection(p) => d[p].seedMu = "locked"

\* Both executions are inside the seed section.
C25_BothInside == C25_InSeedSection(1) /\ C25_InSeedSection(2)

(* C26: for every configuration accepted by New the delay computed after the *)
(* first failure is at most maxWait, so ErrTimeout is never returned with a  *)
(* failure history of length 1; with attempts = 1 no execution times out.    *)
C26_FirstDelayWithinBudget ==
    \A p \in Procs :
        /\ \A j \in At(p, "delay") :
              C24_CallsBefore(p, j) = 1 => log[p][j].d <= d[p].maxWait
        /\ (Done(p) /\ ret[p] = ErrTimeout) => Len(errs[p]) >= 2
        /\ (Done(p) /\ ret[p] = ErrTimeout) => d[p].attempts >= 2


\* C26 where the six invariants hold as statements about numbers (no NaN).
C26_NumbersOnly ==
    \A p \in Procs :
        (Started(p) /\ fn[p] = "func" /\ Valid(opts)) =>
            /\ \A j \in At(p, "delay") :
                  C24_CallsBefore(p, j) = 1 => log[p][j].d <= d[p].maxWait
            /\ (Done(p) /\ ret[p] = ErrTimeout) => Len(errs[p]) >= 2

\* Jitter NaN passes New, the first delay is NaN and its conversion to a
\* Duration gives the largest int64: ErrTimeout after one invocation.
C26_TimeoutAfterOne ==
    /\ Done(1) /\ ret[1] = ErrTimeout /\ Len(errs[1]) = 1
    /\ d[1].attempts = 1 /\ IsNaN(d[1].jitter)

(* C27: ErrMaxAttempts is returned only when all attempts invocations failed *)
(* without a cancellation or a timeout: the policy is consulted on the       *)
(* failure of the final invocation too, a rejection giving ErrCancelled, and *)
(* an execution that returns ErrTimeout has len(errs) < attempts.            *)
C27_AllFailed(p) ==
    /\ Calls(p) = d[p].attempts /\ Len(errs[p]) = d[p].attempts
    /\ AlwaysFailed(p)
    /\ \A j \in At(p, "retry") : log[p][j].ans
    /\ d[p].retry # "nil" => Cardinality(At(p, "retry")) = d[p].attempts

C27_OnlyAfterAllFailed ==
    \A p \in Procs :
        (Done(p) /\ fn[p] = "func") =>
            /\ ret[p] = ErrMaxAttempts => C27_AllFailed(p)
            /\ ret[p] = ErrTimeout => Len(errs[p]) < d[p].attempts

\* The part of C27 about ErrMaxAttempts and the policy, without the bound on
\* the history of a timeout.
C27_MaxAttemptsPart ==
    \A p \in Procs :
        (Done(p) /\ fn[p] = "func" /\ ret[p] = ErrMaxAttempts) => C27_AllFailed(p)

\* The final invocation has failed and the delay computed after it has
\* exceeded the budget: ErrTimeout with len(errs) = attempts.
C27_TimeoutAfterFinal ==
    /\ Done(1) /\ ret[1] = ErrTimeout /\ Valid(opts)
    /\ d[1].attempts = 2 /\ Len(errs[1]) = 2

\* The policy rejects the failure of the final invocation.
C27_CancelledOnFinal ==
    /\ Done(1) /\ ret[1] = ErrCancelled
    /\ d[1].attempts = 2 /\ Len(errs[1]) = 2

(* C28: the delay added to the running total is the computed, post-jitter    *)
(* delay, so the point of the timeout depends on the draws: there is a valid *)
(* configuration with jitter > 0 for which two executions of an operation    *)
(* that always fails return ErrTimeout after different numbers of            *)
(* invocations.                                                              *)

\* The value drawn for the delay of round i by an execution seeded with s.
C28_Draw(s, i) == RFloat64([seed |-> s, n |-> i])

\* The delay events of the history, in order.
C28_Delays(p) == SelectSeq(log[p], LAMBDA e : e.e = "delay")

C28_ChargesJittered ==
    \A p \in Procs :
        (Started(p) /\ fn[p] = "func" /\ pc[p] \notin {"lock", "inc", "unlock"}) =>
            /\ \A i \in 1 .. Len(C28_Delays(p)) :
                  C28_Delays(p)[i].d \in
                      Duration(Jittered(d[p], i - 1, C28_Draw(d[p].seed, i - 1)))
            /\ total[p] = SumAfter(log[p], Len(log[p]))
            /\ ret[p] = ErrTimeout <=>
                  (Done(p) /\ SumAfter(log[p], Len(log[p])) > d[p].maxWait)

\* Two executions under the same configuration and the same failures, seeded
\* differently: one times out after two invocations, the other after three.
C28_Witness ==
    /\ Done(1) /\ Done(2) /\ Valid(opts)
    /\ Config(d[1]) = Config(d[2]) /\ FGt(d[1].jitter, Zero)
    /\ AlwaysFailed(1) /\ AlwaysFailed(2)
    /\ ret[1] = ErrTimeout /\ ret[2] = ErrTimeout
    /\ Calls(1) = 2 /\ Calls(2) = 3

(* C29: for every n >= 0 and otherwise identical valid settings, Try of a    *)
(* Tryer with Retries = n and Do of a Doer with Attempts = n + 1, given the  *)
(* same operation results, policy answers and jitter draws, perform the same *)
(* invocations and sleeps and return the same errs and overall error.        *)
C29_Twins ==
    /\ tryErr = "nil" /\ Valid(opts)
    /\ tryOpts = Retrying(opts) /\ tryer.retry = doer.retry
    /\ tryer.seed = doer.seed

\* l is an initial part of m.
C29_Prefix(l, m) == Len(l) <= Len(m) /\ l = SubSeq(m, 1, Len(l))

C29_Equivalent ==
    (C29_Twins /\ Done(1) /\ Started(2) /\ fn[2] = fn[1]) =>
        /\ C29_Prefix(log[2], log[1])
        /\ Done(2) =>
              /\ log[2] = log[1]
              /\ errs[2] = errs[1]
              /\ ret[2] = ret[1]

\* Retries 1 and Attempts 2 on an operation that always fails: two
\* invocations and two sleeps each, ErrMaxAttempts.
C29_Witness ==
    /\ C29_Twins /\ Done(1) /\ Done(2)
    /\ fn[1] = "fails" /\ fn[2] = "fails"
    /\ tryOpts.Retries = 1 /\ opts.Attempts = 2
    /\ Calls(2) = 2 /\ SleptSum(log[2]) > 0
    /\ ret[2] = ErrMaxAttempts /\ log[2] = log[1]

====
